---- MODULE Spec2Model ----
(***************************************************************************)
(* A model of package equalizer (moutend/go-equalizer): the eight          *)
(* coefficient factories of the RBJ audio EQ cookbook, the process-wide pi *)
(* value, and the biquad Filter with its Apply recurrence.                 *)
(*                                                                         *)
(* float64 is modelled by a small fixed-point format with the IEEE-754     *)
(* special values: a finite value is the integer n standing for n/Scale,   *)
(* |n| <= MaxFloat; a result beyond MaxFloat overflows to an infinity, a   *)
(* quotient is truncated (the format's rounding), and NaN, +Inf and -Inf   *)
(* follow the IEEE rules (0/0, Inf-Inf, 0*Inf are NaN, and NaN absorbs).   *)
(* Signed zeros are not distinguished (Go's == does not distinguish them   *)
(* either).                                                                *)
(***************************************************************************)
EXTENDS Integers, Sequences, FiniteSets

(***************************************************************************)
(* The float64 format                                                      *)
(***************************************************************************)

\* units per 1.0
Scale == 100

\* the largest finite value, in units of 1/Scale
MaxFloat == 40000

PosInf == MaxFloat + 1
NegInf == 0 - (MaxFloat + 1)
NaN == MaxFloat + 2

IsNaN(x) == x = NaN
IsInf(x) == x = PosInf \/ x = NegInf
IsFinite(x) == ~IsNaN(x) /\ ~IsInf(x)

\* the literal n.0
Lit(n) == n * Scale
One == Lit(1)

Abs(n) == IF n < 0 THEN 0 - n ELSE n
Sign(n) == IF n < 0 THEN 0 - 1 ELSE IF n > 0 THEN 1 ELSE 0

\* an exact result brought into the format: overflow gives an infinity
Overflow(n) == IF n > MaxFloat THEN PosInf ELSE IF n < 0 - MaxFloat THEN NegInf ELSE n

\* integer quotient truncated towards zero
Quot(n, d) == Sign(n) * Sign(d) * (Abs(n) \div Abs(d))

Neg(x) == IF IsNaN(x) THEN NaN ELSE 0 - x

\* x + y
Add(x, y) ==
    IF IsNaN(x) \/ IsNaN(y) THEN NaN
    ELSE IF IsInf(x) /\ IsInf(y) THEN (IF x = y THEN x ELSE NaN)
    ELSE IF IsInf(x) THEN x
    ELSE IF IsInf(y) THEN y
    ELSE Overflow(x + y)

\* x - y
Sub(x, y) == Add(x, Neg(y))

\* x * y
Mul(x, y) ==
    IF IsNaN(x) \/ IsNaN(y) THEN NaN
    ELSE IF IsInf(x) \/ IsInf(y)
         THEN (IF x = 0 \/ y = 0 THEN NaN
               ELSE IF Sign(x) * Sign(y) > 0 THEN PosInf ELSE NegInf)
    ELSE Overflow(Quot(x * y, Scale))

\* x / y
Div(x, y) ==
    IF IsNaN(x) \/ IsNaN(y) THEN NaN
    ELSE IF IsInf(x) /\ IsInf(y) THEN NaN
    ELSE IF IsInf(x) THEN (IF Sign(x) * Sign(y) >= 0 THEN PosInf ELSE NegInf)
    ELSE IF IsInf(y) THEN 0
    ELSE IF y = 0 THEN (IF x = 0 THEN NaN ELSE IF x > 0 THEN PosInf ELSE NegInf)
    ELSE Overflow(Quot(x * Scale, y))

(***************************************************************************)
(* Package math, as far as the factories use it                            *)
(***************************************************************************)

\* pi and the logarithms of 2 and 10 in the format
MathPi == (314159 * Scale) \div 100000
Ln2 == (69315 * Scale) \div 100000
Ln10 == (230259 * Scale) \div 100000

\* Bhaskara's approximation of sin on [0, pi]
SinHalfTurn(r) ==
    Quot(16 * r * (MathPi - r) * Scale,
         5 * MathPi * MathPi - 4 * r * (MathPi - r))

\* math.Sin: NaN for NaN and for the infinities
Sin(x) ==
    IF ~IsFinite(x) THEN NaN
    ELSE LET r == x % (2 * MathPi)
         IN  IF r <= MathPi THEN SinHalfTurn(r) ELSE 0 - SinHalfTurn(r - MathPi)

\* math.Cos: NaN for NaN and for the infinities
Cos(x) == IF ~IsFinite(x) THEN NaN ELSE Sin(x + MathPi \div 2)

\* e^x for 0 <= x <= 1: the series to the fourth power
ExpSeries(x) ==
    LET x2 == Mul(x, x)
        x3 == Mul(x2, x)
        x4 == Mul(x3, x)
    IN  Add(Add(Add(Add(One, x), Div(x2, Lit(2))), Div(x3, Lit(6))), Div(x4, Lit(24)))

RECURSIVE ExpPos(_)
\* e^x for finite x >= 0, by halving the argument
ExpPos(x) ==
    IF x <= One THEN ExpSeries(x)
    ELSE LET h == ExpPos(x \div 2) IN Mul(h, h)

\* math.Exp
Exp(x) ==
    IF IsNaN(x) THEN NaN
    ELSE IF x = PosInf THEN PosInf
    ELSE IF x = NegInf THEN 0
    ELSE IF x < 0 THEN Div(One, ExpPos(0 - x))
    ELSE ExpPos(x)

\* math.Sinh
Sinh(x) ==
    IF IsNaN(x) \/ IsInf(x) THEN x
    ELSE Div(Sub(Exp(x), Exp(Neg(x))), Lit(2))

\* math.Pow(10.0, y)
Pow10(y) == Exp(Mul(y, Ln10))

\* math.Sqrt: NaN below zero
Sqrt(x) ==
    IF IsNaN(x) \/ x < 0 THEN NaN
    ELSE IF x = PosInf THEN PosInf
    ELSE CHOOSE r \in 0 .. (x + One) : r * r <= x * Scale /\ (r + 1) * (r + 1) > x * Scale

(***************************************************************************)
(* Package equalizer: names, the pi value, the Filter                      *)
(***************************************************************************)

\* the FilterName constants
Undefined == 0
LowPass == 1
HighPass == 2
AllPass == 3
BandPass == 4
BandReject == 5
LowShelf == 6
HighShelf == 7
Peaking == 8

FilterNames == {LowPass, HighPass, AllPass, BandPass, BandReject, LowShelf, HighShelf, Peaking}

\* const Pi = 3.1415926535897932384626433
Pi == (314159 * Scale) \div 100000

\* a composite literal &Filter{name: ..., a0: ..., ...}: the fields it does
\* not name (in1, in2, out1, out2) are zero
FilterLit(name, a0, a1, a2, b0, b1, b2) ==
    [name |-> name, in1 |-> 0, in2 |-> 0, out1 |-> 0, out2 |-> 0,
     a0 |-> a0, a1 |-> a1, a2 |-> a2, b0 |-> b0, b1 |-> b1, b2 |-> b2]

\* the zero value of Filter
ZeroFilter == FilterLit(Undefined, 0, 0, 0, 0, 0, 0)

\* IsZero as a comparison with the zero value, *f == Filter{}
IsZeroWholeValue(flt) == flt = ZeroFilter

\* func (f *Filter) IsZero() bool
IsZero(flt) == flt.name = Undefined

\* func (f *Filter) Name() FilterName
Name(flt) == flt.name

\* Apply computing its output after the shift: input stands in in1, the old
\* in1 in in2, the old out1 in out2
ApplyOutputAfterShift(flt, input) ==
    Sub(Sub(Add(Add(Mul(Div(flt.b0, flt.a0), input),
                    Mul(Div(flt.b1, flt.a0), input)),
                Mul(Div(flt.b2, flt.a0), flt.in1)),
            Mul(Div(flt.a1, flt.a0), flt.out1)),
        Mul(Div(flt.a2, flt.a0), flt.out1))

\* Apply guarding its output: a NaN result is returned as 0
ApplyOutputGuarded(flt, input) ==
    LET output == Sub(Sub(Add(Add(Mul(Div(flt.b0, flt.a0), input),
                                  Mul(Div(flt.b1, flt.a0), flt.in1)),
                              Mul(Div(flt.b2, flt.a0), flt.in2)),
                          Mul(Div(flt.a1, flt.a0), flt.out1)),
                      Mul(Div(flt.a2, flt.a0), flt.out2))
    IN  IF IsNaN(output) THEN 0 ELSE output

\* Apply's output: the expression of lines 81-85, left to right, on the
\* history held before the call
ApplyOutput(flt, input) ==
    Sub(Sub(Add(Add(Mul(Div(flt.b0, flt.a0), input),
                    Mul(Div(flt.b1, flt.a0), flt.in1)),
                Mul(Div(flt.b2, flt.a0), flt.in2)),
            Mul(Div(flt.a1, flt.a0), flt.out1)),
        Mul(Div(flt.a2, flt.a0), flt.out2))

\* the assignments with each pair swapped: in1 = input before in2 = in1,
\* out1 = output before out2 = out1
ApplyShiftNewestFirst(flt, input, output) ==
    [flt EXCEPT !.in1 = input, !.in2 = input, !.out1 = output, !.out2 = output]

\* the shift, with the coefficients normalised by a0 on the way
ApplyShiftNormalising(flt, input, output) ==
    [flt EXCEPT !.in2 = flt.in1, !.in1 = input, !.out2 = flt.out1, !.out1 = output,
                !.b0 = Div(flt.b0, flt.a0), !.b1 = Div(flt.b1, flt.a0),
                !.b2 = Div(flt.b2, flt.a0), !.a1 = Div(flt.a1, flt.a0),
                !.a2 = Div(flt.a2, flt.a0), !.a0 = One]

\* the shift, with a Filter whose output is NaN reset to the zero value
ApplyShiftResetOnNaN(flt, input, output) ==
    IF IsNaN(output) THEN ZeroFilter
    ELSE [flt EXCEPT !.in2 = flt.in1, !.in1 = input, !.out2 = flt.out1, !.out1 = output]

\* Apply's four assignments, in order
ApplyShift(flt, input, output) ==
    LET s1 == [flt EXCEPT !.in2 = flt.in1]
        s2 == [s1 EXCEPT !.in1 = input]
        s3 == [s2 EXCEPT !.out2 = s2.out1]
    IN  [s3 EXCEPT !.out1 = output]

\* the Filter after Apply(input)
ApplyFilter(flt, input) == ApplyShift(flt, input, ApplyOutput(flt, input))

(***************************************************************************)
(* The factories.  pi is the value of the package variable p read by the   *)
(* call.                                                                   *)
(***************************************************************************)

\* w0 := 2.0 * p * frequency / sampleRate
W0(pi, sampleRate, frequency) == Div(Mul(Mul(Lit(2), pi), frequency), sampleRate)

\* alpha := math.Sin(w0) / (2.0 * q)
AlphaQ(w0, q) == Div(Sin(w0), Mul(Lit(2), q))

\* alpha := math.Sin(w0) * math.Sinh(math.Log(2.0)/2.0*width*w0/math.Sin(w0))
AlphaWidth(w0, width) ==
    Mul(Sin(w0), Sinh(Div(Mul(Mul(Div(Ln2, Lit(2)), width), w0), Sin(w0))))

\* a := math.Pow(10.0, (gain / 40.0))
GainA(gain) == Pow10(Div(gain, Lit(40)))

NewLowPass(pi, sampleRate, frequency, q) ==
    LET w0 == W0(pi, sampleRate, frequency)
        alpha == AlphaQ(w0, q)
    IN  FilterLit(LowPass,
            Add(One, alpha),
            Mul(Lit(0 - 2), Cos(w0)),
            Sub(One, alpha),
            Div(Sub(One, Cos(w0)), Lit(2)),
            Sub(One, Cos(w0)),
            Div(Sub(One, Cos(w0)), Lit(2)))

NewHighPass(pi, sampleRate, frequency, q) ==
    LET w0 == W0(pi, sampleRate, frequency)
        alpha == AlphaQ(w0, q)
    IN  FilterLit(HighPass,
            Add(One, alpha),
            Mul(Lit(0 - 2), Cos(w0)),
            Sub(One, alpha),
            Div(Add(One, Cos(w0)), Lit(2)),
            Mul(Lit(0 - 1), Add(One, Cos(w0))),
            Div(Add(One, Cos(w0)), Lit(2)))

NewAllPass(pi, sampleRate, frequency, q) ==
    LET w0 == W0(pi, sampleRate, frequency)
        alpha == AlphaQ(w0, q)
    IN  FilterLit(AllPass,
            Add(One, alpha),
            Mul(Lit(0 - 2), Cos(w0)),
            Sub(One, alpha),
            Sub(One, alpha),
            Mul(Lit(0 - 2), Cos(w0)),
            Add(One, alpha))

NewBandPass(pi, sampleRate, frequency, width) ==
    LET w0 == W0(pi, sampleRate, frequency)
        alpha == AlphaWidth(w0, width)
    IN  FilterLit(BandPass,
            Add(One, alpha),
            Mul(Lit(0 - 2), Cos(w0)),
            Sub(One, alpha),
            alpha,
            0,
            Mul(Lit(0 - 1), alpha))

NewBandReject(pi, sampleRate, frequency, width) ==
    LET w0 == W0(pi, sampleRate, frequency)
        alpha == AlphaWidth(w0, width)
    IN  FilterLit(BandReject,
            Add(One, alpha),
            Mul(Lit(0 - 2), Cos(w0)),
            Sub(One, alpha),
            One,
            Mul(Lit(0 - 2), Cos(w0)),
            One)

NewLowShelf(pi, sampleRate, frequency, q, gain) ==
    LET w0 == W0(pi, sampleRate, frequency)
        a == GainA(gain)
        beta == Div(Sqrt(a), q)
        ap == Add(a, One)
        am == Sub(a, One)
        c == Cos(w0)
        bs == Mul(beta, Sin(w0))
    IN  FilterLit(LowShelf,
            Add(Add(ap, Mul(am, c)), bs),
            Mul(Lit(0 - 2), Add(am, Mul(ap, c))),
            Sub(Add(ap, Mul(am, c)), bs),
            Mul(a, Add(Sub(ap, Mul(am, c)), bs)),
            Mul(Mul(Lit(2), a), Sub(am, Mul(ap, c))),
            Mul(a, Sub(Sub(ap, Mul(am, c)), bs)))

NewHighShelf(pi, sampleRate, frequency, q, gain) ==
    LET w0 == W0(pi, sampleRate, frequency)
        a == GainA(gain)
        beta == Div(Sqrt(a), q)
        ap == Add(a, One)
        am == Sub(a, One)
        c == Cos(w0)
        bs == Mul(beta, Sin(w0))
    IN  FilterLit(HighShelf,
            Add(Sub(ap, Mul(am, c)), bs),
            Mul(Lit(2), Sub(am, Mul(ap, c))),
            Sub(Sub(ap, Mul(am, c)), bs),
            Mul(a, Add(Add(ap, Mul(am, c)), bs)),
            Mul(Mul(Lit(0 - 2), a), Add(am, Mul(ap, c))),
            Mul(a, Sub(Add(ap, Mul(am, c)), bs)))

NewPeaking(pi, sampleRate, frequency, width, gain) ==
    LET w0 == W0(pi, sampleRate, frequency)
        alpha == AlphaWidth(w0, width)
        a == GainA(gain)
    IN  FilterLit(Peaking,
            Add(One, Div(alpha, a)),
            Mul(Lit(0 - 2), Cos(w0)),
            Sub(One, Div(alpha, a)),
            Add(One, Mul(alpha, a)),
            Mul(Lit(0 - 2), Cos(w0)),
            Sub(One, Mul(alpha, a)))

(***************************************************************************)
(* The program state.  A caller holds Filter instances in the variables    *)
(* f0 and f1 (as the example does, one per channel), gets each from a      *)
(* factory or as the zero value of the exported type, and calls Apply,     *)
(* IsZero and Name on it; SetPi and UnsetPi write the package variable p.  *)
(***************************************************************************)

VARIABLES
    p,       \* the package variable p
    f,       \* f[i]: the Filter held in instance variable i
    origin,  \* origin[i]: how f[i] was made: the factory, its arguments, and p at the call
    ins,     \* ins[i]: the inputs of the Apply calls made on f[i], oldest first
    outs,    \* outs[i]: the values those calls returned
    ret,     \* what the last IsZero or Name call returned
    piOp,    \* the last call among SetPi and UnsetPi
    budget,  \* Apply calls the run may still make
    th       \* th[t]: thread t's position inside a concurrent Apply call

vars == <<p, f, origin, ins, outs, ret, piOp, budget, th>>

\* the instance variables of example/main.go
Instances == {"f0", "f1"}

Threads == {"t0", "t1"}

\* Apply calls in a run of Spec
MaxCalls == 1

\* Apply calls in a run of SpecStream
MaxStream == 3

\* the argument tuples the callers choose from: a usual one and one the
\* factories do not check (q = 0, frequency = 0)
SampleRate == Lit(8)
Frequency == Lit(1)
Q == (7 * Scale) \div 10
Width == Lit(1)
Gain == Lit(6)

\* (sampleRate, frequency, q) of NewLowPass, NewHighPass, NewAllPass
QArgs == {<<SampleRate, Frequency, Q>>, <<SampleRate, Frequency, 0>>}

\* (sampleRate, frequency, width) of NewBandPass, NewBandReject
WidthArgs == {<<SampleRate, Frequency, Width>>, <<SampleRate, 0, Width>>}

\* (sampleRate, frequency, q, gain) of NewLowShelf, NewHighShelf
ShelfArgs == {<<SampleRate, Frequency, Q, Gain>>, <<SampleRate, Frequency, 0, Gain>>}

\* (sampleRate, frequency, width, gain) of NewPeaking
PeakingArgs == {<<SampleRate, Frequency, Width, Gain>>, <<SampleRate, 0, Width, Gain>>}

\* the values SetPi is called with
PiValues == {Lit(3), Lit(4)}

\* the samples fed to Apply
Inputs == {0, One, NaN}

Origin(fn, sampleRate, frequency, q, gain, pi) ==
    [fn |-> fn, sampleRate |-> sampleRate, frequency |-> frequency,
     q |-> q, gain |-> gain, pi |-> pi]

\* no instance yet in the variable
NoOrigin == Origin("none", 0, 0, 0, 0, 0)

\* var f Filter, or new(Filter)
ZeroOrigin == Origin("zero", 0, 0, 0, 0, 0)

\* the Filter the call recorded in o returned
Build(o) ==
    CASE o.fn = "NewLowPass" -> NewLowPass(o.pi, o.sampleRate, o.frequency, o.q)
      [] o.fn = "NewHighPass" -> NewHighPass(o.pi, o.sampleRate, o.frequency, o.q)
      [] o.fn = "NewAllPass" -> NewAllPass(o.pi, o.sampleRate, o.frequency, o.q)
      [] o.fn = "NewBandPass" -> NewBandPass(o.pi, o.sampleRate, o.frequency, o.q)
      [] o.fn = "NewBandReject" -> NewBandReject(o.pi, o.sampleRate, o.frequency, o.q)
      [] o.fn = "NewLowShelf" -> NewLowShelf(o.pi, o.sampleRate, o.frequency, o.q, o.gain)
      [] o.fn = "NewHighShelf" -> NewHighShelf(o.pi, o.sampleRate, o.frequency, o.q, o.gain)
      [] o.fn = "NewPeaking" -> NewPeaking(o.pi, o.sampleRate, o.frequency, o.q, o.gain)
      [] OTHER -> ZeroFilter

NoRet == [op |-> "none", inst |-> "f0", zero |-> FALSE, name |-> Undefined]

IdleThread ==
    [pc |-> "idle", inst |-> "f0", input |-> 0,
     in1 |-> 0, in2 |-> 0, out1 |-> 0, out2 |-> 0, tmp |-> 0, output |-> 0]

Init ==
    /\ p = Pi
    /\ f = [i \in Instances |-> ZeroFilter]
    /\ origin = [i \in Instances |-> NoOrigin]
    /\ ins = [i \in Instances |-> <<>>]
    /\ outs = [i \in Instances |-> <<>>]
    /\ ret = NoRet
    /\ piOp = <<"none", Pi>>
    /\ budget = MaxCalls
    /\ th = [t \in Threads |-> IdleThread]

\* SetPi taking effect only while p is the default
SetPiFirstWins(value) ==
    /\ p' = IF p = Pi THEN value ELSE p
    /\ piOp' = <<"SetPi", value>>
    /\ ret' = NoRet
    /\ UNCHANGED <<f, origin, ins, outs, budget, th>>

\* func SetPi(value float64)
SetPi(value) ==
    /\ p' = value
    /\ piOp' = <<"SetPi", value>>
    /\ ret' = NoRet
    /\ UNCHANGED <<f, origin, ins, outs, budget, th>>

\* func UnsetPi()
UnsetPi ==
    /\ p' = Pi
    /\ piOp' = <<"UnsetPi", Pi>>
    /\ ret' = NoRet
    /\ UNCHANGED <<f, origin, ins, outs, budget, th>>

\* instance variable i receives the Filter flt that the call o returned
Assign(i, flt, o) ==
    /\ origin[i].fn = "none"
    /\ f' = [f EXCEPT ![i] = flt]
    /\ origin' = [origin EXCEPT ![i] = o]
    /\ ret' = NoRet
    /\ UNCHANGED <<p, piOp, ins, outs, budget, th>>

\* var i Filter
DeclareZero(i) == Assign(i, ZeroFilter, ZeroOrigin)

CallNewLowPass(i, sampleRate, frequency, q) ==
    Assign(i, NewLowPass(p, sampleRate, frequency, q),
           Origin("NewLowPass", sampleRate, frequency, q, 0, p))

CallNewHighPass(i, sampleRate, frequency, q) ==
    Assign(i, NewHighPass(p, sampleRate, frequency, q),
           Origin("NewHighPass", sampleRate, frequency, q, 0, p))

CallNewAllPass(i, sampleRate, frequency, q) ==
    Assign(i, NewAllPass(p, sampleRate, frequency, q),
           Origin("NewAllPass", sampleRate, frequency, q, 0, p))

CallNewBandPass(i, sampleRate, frequency, width) ==
    Assign(i, NewBandPass(p, sampleRate, frequency, width),
           Origin("NewBandPass", sampleRate, frequency, width, 0, p))

CallNewBandReject(i, sampleRate, frequency, width) ==
    Assign(i, NewBandReject(p, sampleRate, frequency, width),
           Origin("NewBandReject", sampleRate, frequency, width, 0, p))

CallNewLowShelf(i, sampleRate, frequency, q, gain) ==
    Assign(i, NewLowShelf(p, sampleRate, frequency, q, gain),
           Origin("NewLowShelf", sampleRate, frequency, q, gain, p))

CallNewHighShelf(i, sampleRate, frequency, q, gain) ==
    Assign(i, NewHighShelf(p, sampleRate, frequency, q, gain),
           Origin("NewHighShelf", sampleRate, frequency, q, gain, p))

CallNewPeaking(i, sampleRate, frequency, width, gain) ==
    Assign(i, NewPeaking(p, sampleRate, frequency, width, gain),
           Origin("NewPeaking", sampleRate, frequency, width, gain, p))

\* Apply on a Filter the factory handed out twice: a call made with the
\* same arguments under the same pi returned the same pointer
CallApplyCached(i, input) ==
    /\ origin[i].fn # "none"
    /\ budget > 0
    /\ budget' = budget - 1
    /\ f' = [j \in Instances |->
                IF origin[j] = origin[i] THEN ApplyFilter(f[i], input) ELSE f[j]]
    /\ ins' = [ins EXCEPT ![i] = Append(ins[i], input)]
    /\ outs' = [outs EXCEPT ![i] = Append(outs[i], ApplyOutput(f[i], input))]
    /\ ret' = NoRet
    /\ UNCHANGED <<p, origin, piOp, th>>

\* Apply keeping the history in package variables: every instance sees the
\* shifted history
CallApplyGlobalHistory(i, input) ==
    /\ origin[i].fn # "none"
    /\ budget > 0
    /\ budget' = budget - 1
    /\ f' = [j \in Instances |->
                [f[j] EXCEPT !.in2 = f[i].in1, !.in1 = input,
                             !.out2 = f[i].out1, !.out1 = ApplyOutput(f[i], input)]]
    /\ ins' = [ins EXCEPT ![i] = Append(ins[i], input)]
    /\ outs' = [outs EXCEPT ![i] = Append(outs[i], ApplyOutput(f[i], input))]
    /\ ret' = NoRet
    /\ UNCHANGED <<p, origin, piOp, th>>

\* f[i].Apply(input)
CallApply(i, input) ==
    /\ origin[i].fn # "none"
    /\ budget > 0
    /\ budget' = budget - 1
    /\ f' = [f EXCEPT ![i] = ApplyFilter(f[i], input)]
    /\ ins' = [ins EXCEPT ![i] = Append(ins[i], input)]
    /\ outs' = [outs EXCEPT ![i] = Append(outs[i], ApplyOutput(f[i], input))]
    /\ ret' = NoRet
    /\ UNCHANGED <<p, origin, piOp, th>>

\* f[i].IsZero()
CallIsZero(i) ==
    /\ origin[i].fn # "none"
    /\ ret' = [op |-> "IsZero", inst |-> i, zero |-> IsZero(f[i]), name |-> Undefined]
    /\ UNCHANGED <<p, f, origin, ins, outs, piOp, budget, th>>

\* f[i].Name()
CallName(i) ==
    /\ origin[i].fn # "none"
    /\ ret' = [op |-> "Name", inst |-> i, zero |-> FALSE, name |-> Name(f[i])]
    /\ UNCHANGED <<p, f, origin, ins, outs, piOp, budget, th>>

Next ==
    \/ \E value \in PiValues : SetPi(value)
    \/ UnsetPi
    \/ \E i \in Instances : DeclareZero(i)
    \/ \E i \in Instances, a \in QArgs : CallNewLowPass(i, a[1], a[2], a[3])
    \/ \E i \in Instances, a \in QArgs : CallNewHighPass(i, a[1], a[2], a[3])
    \/ \E i \in Instances, a \in QArgs : CallNewAllPass(i, a[1], a[2], a[3])
    \/ \E i \in Instances, a \in WidthArgs : CallNewBandPass(i, a[1], a[2], a[3])
    \/ \E i \in Instances, a \in WidthArgs : CallNewBandReject(i, a[1], a[2], a[3])
    \/ \E i \in Instances, a \in ShelfArgs : CallNewLowShelf(i, a[1], a[2], a[3], a[4])
    \/ \E i \in Instances, a \in ShelfArgs : CallNewHighShelf(i, a[1], a[2], a[3], a[4])
    \/ \E i \in Instances, a \in PeakingArgs : CallNewPeaking(i, a[1], a[2], a[3], a[4])
    \/ \E i \in Instances, input \in Inputs : CallApply(i, input)
    \/ \E i \in Instances : CallIsZero(i)
    \/ \E i \in Instances : CallName(i)

Spec == Init /\ [][Next]_vars

(***************************************************************************)
(* Streams: both instances are constructed (with the default pi, or left   *)
(* as the zero value) and the caller feeds them samples in any             *)
(* interleaving, as the loop of example/main.go does with its two          *)
(* channels.                                                               *)
(***************************************************************************)

\* the factory calls a caller can make while p is pi
FactoryCalls(pi) ==
    {Origin(fn, a[1], a[2], a[3], 0, pi) :
        fn \in {"NewLowPass", "NewHighPass", "NewAllPass"}, a \in QArgs}
    \cup {Origin(fn, a[1], a[2], a[3], 0, pi) :
        fn \in {"NewBandPass", "NewBandReject"}, a \in WidthArgs}
    \cup {Origin(fn, a[1], a[2], a[3], a[4], pi) :
        fn \in {"NewLowShelf", "NewHighShelf"}, a \in ShelfArgs}
    \cup {Origin("NewPeaking", a[1], a[2], a[3], a[4], pi) : a \in PeakingArgs}

InitStream ==
    /\ p = Pi
    /\ origin \in [Instances -> FactoryCalls(Pi) \cup {ZeroOrigin}]
    /\ f = [i \in Instances |-> Build(origin[i])]
    /\ ins = [i \in Instances |-> <<>>]
    /\ outs = [i \in Instances |-> <<>>]
    /\ ret = NoRet
    /\ piOp = <<"none", Pi>>
    /\ budget = MaxStream
    /\ th = [t \in Threads |-> IdleThread]

NextStream == \E i \in Instances, input \in Inputs : CallApply(i, input)

SpecStream == InitStream /\ [][NextStream]_vars

(***************************************************************************)
(* Concurrent Apply.  Apply takes no lock, so two goroutines calling it    *)
(* run its loads and stores of in1, in2, out1 and out2 in any              *)
(* interleaving; the coefficients are never written and their loads are    *)
(* left out.  Each thread makes one call.  th[t] holds the call's          *)
(* arguments, the values it has loaded and its output.  The steps follow   *)
(* the program order of lines 81-93; a build may order or split them       *)
(* further, which adds outcomes on a shared instance and none on separate  *)
(* ones.                                                                   *)
(***************************************************************************)

\* the call of example/main.go, lines 19 and 20, with the argument values
\* of this model
ExampleCall(pi) == Origin("NewBandPass", SampleRate, Frequency, Width, 0, pi)

InitRace ==
    /\ p = Pi
    /\ origin = [i \in Instances |-> ExampleCall(Pi)]
    /\ f = [i \in Instances |-> Build(origin[i])]
    /\ ins = [i \in Instances |-> <<>>]
    /\ outs = [i \in Instances |-> <<>>]
    /\ ret = NoRet
    /\ piOp = <<"none", Pi>>
    /\ budget = 0
    /\ th = [t \in Threads |-> IdleThread]

\* thread t moves from pc to next with its record changed to rec
Move(t, pc, next, rec) ==
    /\ th[t].pc = pc
    /\ th' = [th EXCEPT ![t] = [rec EXCEPT !.pc = next]]

Untouched == UNCHANGED <<p, origin, ins, outs, ret, piOp, budget>>

\* thread t enters f[i].Apply(input)
Enter(t, i, input) ==
    /\ Move(t, "idle", "line82", [th[t] EXCEPT !.inst = i, !.input = input])
    /\ UNCHANGED f /\ Untouched

\* line 82 loads f.in1
LoadIn1(t) ==
    /\ Move(t, "line82", "line83", [th[t] EXCEPT !.in1 = f[th[t].inst].in1])
    /\ UNCHANGED f /\ Untouched

\* line 83 loads f.in2
LoadIn2(t) ==
    /\ Move(t, "line83", "line84", [th[t] EXCEPT !.in2 = f[th[t].inst].in2])
    /\ UNCHANGED f /\ Untouched

\* line 84 loads f.out1
LoadOut1(t) ==
    /\ Move(t, "line84", "line85", [th[t] EXCEPT !.out1 = f[th[t].inst].out1])
    /\ UNCHANGED f /\ Untouched

\* line 85 loads f.out2, and output is computed from the loaded values
LoadOut2(t) ==
    LET out2 == f[th[t].inst].out2
        seen == [f[th[t].inst] EXCEPT !.in1 = th[t].in1, !.in2 = th[t].in2,
                                       !.out1 = th[t].out1, !.out2 = out2]
    IN  /\ Move(t, "line85", "line87",
                [th[t] EXCEPT !.out2 = out2, !.output = ApplyOutput(seen, th[t].input)])
        /\ UNCHANGED f /\ Untouched

\* line 87, f.in2 = f.in1: the load
ShiftInLoad(t) ==
    /\ Move(t, "line87", "line87store", [th[t] EXCEPT !.tmp = f[th[t].inst].in1])
    /\ UNCHANGED f /\ Untouched

\* line 87, f.in2 = f.in1: the store
ShiftInStore(t) ==
    /\ Move(t, "line87store", "line88", th[t])
    /\ f' = [f EXCEPT ![th[t].inst].in2 = th[t].tmp]
    /\ Untouched

\* line 88, f.in1 = input
StoreIn1(t) ==
    /\ Move(t, "line88", "line90", th[t])
    /\ f' = [f EXCEPT ![th[t].inst].in1 = th[t].input]
    /\ Untouched

\* line 90, f.out2 = f.out1: the load
ShiftOutLoad(t) ==
    /\ Move(t, "line90", "line90store", [th[t] EXCEPT !.tmp = f[th[t].inst].out1])
    /\ UNCHANGED f /\ Untouched

\* line 90, f.out2 = f.out1: the store
ShiftOutStore(t) ==
    /\ Move(t, "line90store", "line91", th[t])
    /\ f' = [f EXCEPT ![th[t].inst].out2 = th[t].tmp]
    /\ Untouched

\* line 91 storing through a pointer all callers share
StoreOut1Shared(t) ==
    /\ Move(t, "line91", "done", th[t])
    /\ f' = [f EXCEPT !["f0"].out1 = th[t].output]
    /\ Untouched

\* line 91, f.out1 = output, and the return of line 93
StoreOut1(t) ==
    /\ Move(t, "line91", "done", th[t])
    /\ f' = [f EXCEPT ![th[t].inst].out1 = th[t].output]
    /\ Untouched

NextRace ==
    \/ \E t \in Threads, i \in Instances, input \in Inputs : Enter(t, i, input)
    \/ \E t \in Threads : LoadIn1(t)
    \/ \E t \in Threads : LoadIn2(t)
    \/ \E t \in Threads : LoadOut1(t)
    \/ \E t \in Threads : LoadOut2(t)
    \/ \E t \in Threads : ShiftInLoad(t)
    \/ \E t \in Threads : ShiftInStore(t)
    \/ \E t \in Threads : StoreIn1(t)
    \/ \E t \in Threads : ShiftOutLoad(t)
    \/ \E t \in Threads : ShiftOutStore(t)
    \/ \E t \in Threads : StoreOut1(t)

SpecRace == InitRace /\ [][NextRace]_vars

(***************************************************************************)
(* Properties                                                              *)
(***************************************************************************)

FactoryFns ==
    {"NewLowPass", "NewHighPass", "NewAllPass", "NewBandPass", "NewBandReject",
     "NewLowShelf", "NewHighShelf", "NewPeaking"}

\* instance variable i holds a Filter a factory returned
FromFactory(i) == origin[i].fn \in FactoryFns

\* the kind each way of making a Filter is documented to give
KindOf(fn) ==
    CASE fn = "NewLowPass" -> LowPass
      [] fn = "NewHighPass" -> HighPass
      [] fn = "NewAllPass" -> AllPass
      [] fn = "NewBandPass" -> BandPass
      [] fn = "NewBandReject" -> BandReject
      [] fn = "NewLowShelf" -> LowShelf
      [] fn = "NewHighShelf" -> HighShelf
      [] fn = "NewPeaking" -> Peaking
      [] OTHER -> Undefined

Coefficients(flt) == <<flt.a0, flt.a1, flt.a2, flt.b0, flt.b1, flt.b2>>
History(flt) == <<flt.in1, flt.in2, flt.out1, flt.out2>>

\* the k-th element of s, and 0 for an element that does not exist
Nth(s, k) == IF 1 <= k /\ k <= Len(s) THEN s[k] ELSE 0

\* the step is an Apply call on instance i
ApplyStepOn(i) == Len(ins'[i]) = Len(ins[i]) + 1

\* same factory, same arguments
SameCall(o1, o2) ==
    /\ o1.fn = o2.fn
    /\ o1.sampleRate = o2.sampleRate
    /\ o1.frequency = o2.frequency
    /\ o1.q = o2.q
    /\ o1.gain = o2.gain

(* C1: on a factory-made Filter, after the n-th Apply call in1 is the n-th
   input, in2 the (n-1)-th, out1 the value the n-th call returned and out2
   the value the (n-1)-th call returned, a missing one counting as 0. *)
C1_HistoryIsLastTwo ==
    \A i \in Instances :
        FromFactory(i) =>
            LET n == Len(ins[i])
            IN  /\ Len(outs[i]) = n
                /\ f[i].in1 = Nth(ins[i], n)
                /\ f[i].in2 = Nth(ins[i], n - 1)
                /\ f[i].out1 = Nth(outs[i], n)
                /\ f[i].out2 = Nth(outs[i], n - 1)

\* three calls made on a factory-made Filter, the last two inputs and the
\* last two outputs different
C1_Witness ==
    \E i \in Instances :
        /\ FromFactory(i)
        /\ Len(ins[i]) = 3
        /\ ins[i][2] # ins[i][3]
        /\ outs[i][2] # outs[i][3]
        /\ outs[i][1] # 0
        /\ f[i].out2 = outs[i][2]

\* the cookbook's difference equation on the history flt holds
Biquad(flt, input) ==
    LET n0 == Div(flt.b0, flt.a0)
        n1 == Div(flt.b1, flt.a0)
        n2 == Div(flt.b2, flt.a0)
        d1 == Div(flt.a1, flt.a0)
        d2 == Div(flt.a2, flt.a0)
        feedforward == Add(Add(Mul(n0, input), Mul(n1, flt.in1)), Mul(n2, flt.in2))
    IN  Sub(Sub(feedforward, Mul(d1, flt.out1)), Mul(d2, flt.out2))

\* every Apply call returns the difference equation on the history held
\* before the call
ReturnsBiquad ==
    \A i \in Instances :
        ApplyStepOn(i) => outs'[i][Len(outs'[i])] = Biquad(f[i], ins'[i][Len(ins'[i])])

\* the five quotients Apply forms are finite
FiniteQuotients(flt) ==
    \A c \in {flt.b0, flt.b1, flt.b2, flt.a1, flt.a2} : IsFinite(Div(c, flt.a0))

\* a fresh Filter fed 1 then 0 returns b0/a0, then b1/a0 - (a1/a0)(b0/a0)
ImpulseResponse(i) ==
    LET flt == Build(origin[i])
        h0 == Div(flt.b0, flt.a0)
        h1 == Sub(Div(flt.b1, flt.a0), Mul(Div(flt.a1, flt.a0), h0))
    IN  /\ (Len(ins[i]) >= 1 /\ ins[i][1] = One) => outs[i][1] = h0
        /\ (Len(ins[i]) >= 2 /\ ins[i][1] = One /\ ins[i][2] = 0) => outs[i][2] = h1

(* C2 as stated: on every freshly constructed Filter fed 1 then 0 the first
   output is b0/a0 and the second b1/a0 - (a1/a0)(b0/a0). *)
C2_ImpulseAnyFilter == \A i \in Instances : ImpulseResponse(i)

(* C2, amended: every Apply call returns the difference equation evaluated
   on the history held before the call; and a fresh Filter whose five
   quotients b0/a0, b1/a0, b2/a0, a1/a0, a2/a0 are all finite, fed 1 then 0,
   returns b0/a0 and then b1/a0 - (a1/a0)(b0/a0). *)
C2_ApplyIsBiquad ==
    /\ [][ReturnsBiquad]_vars
    /\ [](\A i \in Instances : FiniteQuotients(Build(origin[i])) => ImpulseResponse(i))

\* a low-pass Filter with finite quotients has been fed 1 then 0, and both
\* outputs are non-zero
C2_Witness ==
    \E i \in Instances :
        /\ origin[i].fn = "NewLowPass"
        /\ FiniteQuotients(f[i])
        /\ Len(ins[i]) >= 2 /\ ins[i][1] = One /\ ins[i][2] = 0
        /\ outs[i][1] # 0 /\ outs[i][2] # 0 /\ outs[i][2] # outs[i][1]

(* C3: once a factory has returned a Filter, no step (Apply, IsZero, Name,
   SetPi, UnsetPi, a factory call for another instance) changes its kind or
   any of a0, a1, a2, b0, b1, b2. *)
C3_CoefficientsNeverChange ==
    [][\A i \in Instances :
          FromFactory(i) =>
              /\ f'[i].name = f[i].name
              /\ Coefficients(f'[i]) = Coefficients(f[i])]_vars

\* f0 was made under the default pi, Apply has run on it, pi was then
\* overridden and f1 made by the same call with other coefficients
C3_Witness ==
    /\ FromFactory("f0") /\ FromFactory("f1")
    /\ Len(ins["f0"]) >= 1
    /\ origin["f0"].pi = Pi
    /\ origin["f1"].pi # Pi
    /\ p # Pi
    /\ SameCall(origin["f0"], origin["f1"])
    /\ Coefficients(f["f0"]) # Coefficients(f["f1"])
    /\ Coefficients(f["f0"]) = Coefficients(Build(origin["f0"]))

(* C4: each factory returns a Filter whose Name() is the matching kind and
   never Undefined; a zero-value Filter reports Undefined; IsZero() is true
   exactly when Name() is Undefined, whatever Apply calls were made. *)
C4_KindTagging ==
    /\ \A i \in Instances :
          /\ FromFactory(i) =>
                Name(f[i]) = KindOf(origin[i].fn) /\ Name(f[i]) \in FilterNames
          /\ origin[i].fn = "zero" => Name(f[i]) = Undefined
          /\ origin[i].fn # "none" =>
                (IsZero(f[i]) <=> KindOf(origin[i].fn) = Undefined)
    /\ ret.op = "Name" => ret.name = KindOf(origin[ret.inst].fn)
    /\ ret.op = "IsZero" => (ret.zero <=> origin[ret.inst].fn = "zero")

\* IsZero() has just answered false for a factory-made Filter that Apply
\* has run on, beside a zero-value Filter
C4_Witness ==
    \E i, j \in Instances :
        /\ ret.op = "IsZero" /\ ret.inst = i /\ ~ret.zero
        /\ FromFactory(i) /\ Len(ins[i]) >= 1
        /\ origin[j].fn = "zero" /\ IsZero(f[j])

\* the pi value in effect: the argument of the last SetPi unless UnsetPi
\* came after it, else the default
EffectivePi == IF piOp[1] = "SetPi" THEN piOp[2] ELSE Pi

(* C5: each factory call computes w0 with the pi value in effect at the
   call: the argument of the most recent SetPi if no UnsetPi came after it,
   the default Pi otherwise; UnsetPi restores the default. *)
C5_FactoryReadsPiInEffect ==
    /\ [][\A i \in Instances :
            (origin[i].fn = "none" /\ origin'[i].fn \in FactoryFns) =>
                f'[i] = Build([origin'[i] EXCEPT !.pi = EffectivePi])]_vars
    /\ [](p = EffectivePi)

\* f0 was made under an override and f1, by the same call, after UnsetPi:
\* the two differ, and f1 is what the default pi gives
C5_Witness ==
    /\ piOp[1] = "UnsetPi"
    /\ FromFactory("f0") /\ FromFactory("f1")
    /\ SameCall(origin["f0"], origin["f1"])
    /\ origin["f0"].pi # Pi
    /\ f["f0"] # f["f1"]
    /\ f["f1"] = Build([origin["f1"] EXCEPT !.pi = Pi])

\* instance i is as its factory call returned it and j, made by the same
\* call, has the same kind and coefficients and a zero history while unused
SameConstruction(i, j) ==
    /\ f[i].name = f[j].name
    /\ Coefficients(f[i]) = Coefficients(f[j])
    /\ ins[j] = <<>> => History(f[j]) = <<0, 0, 0, 0>>

(* C7 as stated: the same factory called twice with identical arguments
   gives identical kind and coefficients and zero histories, whatever
   happens between the two calls, SetPi and UnsetPi included. *)
C7_SameCallAnyPi ==
    \A i, j \in Instances :
        (FromFactory(i) /\ FromFactory(j) /\ SameCall(origin[i], origin[j]))
            => SameConstruction(i, j)

(* C7, amended: the same factory called twice with identical arguments,
   under the same pi value in effect at both calls, gives two instances
   with identical kind and coefficients, each with a zero history when
   returned, whatever Apply calls were made on the first. *)
C7_SameCallSamePi ==
    \A i, j \in Instances :
        (FromFactory(i) /\ FromFactory(j) /\ SameCall(origin[i], origin[j])
            /\ origin[i].pi = origin[j].pi)
            => SameConstruction(i, j)

\* f0 and f1 come from the same call under the same pi, with SetPi and
\* UnsetPi in between; Apply has run on f0 only
C7_Witness ==
    /\ FromFactory("f0") /\ FromFactory("f1")
    /\ SameCall(origin["f0"], origin["f1"])
    /\ origin["f0"].pi = origin["f1"].pi
    /\ piOp[1] = "UnsetPi"
    /\ Len(ins["f0"]) >= 1 /\ ins["f1"] = <<>>
    /\ History(f["f0"]) # <<0, 0, 0, 0>>
    /\ IsFinite(f["f0"].out1) /\ f["f0"].out1 # 0

Configured(flt) == flt.name \in FilterNames

(* C8 as stated: every reachable Filter is Uninitialized (kind Undefined,
   all coefficients and all history values zero) or Configured. *)
C8_TwoStates ==
    \A i \in Instances :
        origin[i].fn # "none" =>
            \/ /\ f[i].name = Undefined
               /\ Coefficients(f[i]) = <<0, 0, 0, 0, 0, 0>>
               /\ History(f[i]) = <<0, 0, 0, 0>>
            \/ Configured(f[i])

(* C8, amended: every reachable Filter is Uninitialized (kind Undefined,
   all six coefficients zero; its history is zero until Apply is first
   called on it, and from then on out1 is NaN and in1 the last input) or
   Configured (kind one of the eight); Apply keeps a Configured Filter
   Configured and no step takes one back to Uninitialized. *)
C8_TwoStatesUntilApply ==
    /\ [](\A i \in Instances :
            origin[i].fn # "none" =>
                \/ /\ f[i].name = Undefined
                   /\ Coefficients(f[i]) = <<0, 0, 0, 0, 0, 0>>
                   /\ ins[i] = <<>> => History(f[i]) = <<0, 0, 0, 0>>
                   /\ ins[i] # <<>> =>
                         IsNaN(f[i].out1) /\ f[i].in1 = ins[i][Len(ins[i])]
                \/ Configured(f[i]))
    /\ [][\A i \in Instances :
            (origin[i].fn # "none" /\ Configured(f[i])) => Configured(f'[i])]_vars

\* Apply has run on a zero-value Filter, which stays Uninitialized with a
\* history that is no longer zero, beside a Configured Filter
C8_Witness ==
    \E i, j \in Instances :
        /\ Configured(f[i]) /\ FromFactory(i)
        /\ origin[j].fn = "zero" /\ f[j].name = Undefined
        /\ ins[j] = <<One>>
        /\ f[j].in1 = One /\ IsNaN(f[j].out1)

RECURSIVE RunAlone(_, _)
\* the Filter flt run alone on the inputs seq: its final state and the
\* outputs it returns
RunAlone(flt, seq) ==
    IF seq = <<>> THEN [flt |-> flt, outs |-> <<>>]
    ELSE LET before == RunAlone(flt, SubSeq(seq, 1, Len(seq) - 1))
             input == seq[Len(seq)]
         IN  [flt |-> ApplyFilter(before.flt, input),
              outs |-> Append(before.outs, ApplyOutput(before.flt, input))]

(* C6: an Apply call on one instance leaves in1, in2, out1, out2 of the
   other unchanged; so in any interleaving of Apply calls on f0 and f1 each
   instance's outputs and final history are those of running it alone on
   its own inputs. *)
C6_InstancesIsolated ==
    /\ [][\A i, j \in Instances :
            (ApplyStepOn(i) /\ j # i) => f'[j] = f[j] /\ outs'[j] = outs[j]]_vars
    /\ [](\A i \in Instances :
            LET alone == RunAlone(Build(origin[i]), ins[i])
            IN  f[i] = alone.flt /\ outs[i] = alone.outs)

\* the example's two band-pass filters, identically configured, after the
\* calls f0, f1, f0 on different samples: their histories differ
C6_Witness ==
    /\ origin["f0"] = origin["f1"]
    /\ origin["f0"].fn = "NewBandPass" /\ origin["f0"].frequency # 0
    /\ ins["f0"] = <<One, 0>> /\ ins["f1"] = <<One>>
    /\ f["f0"].out1 # f["f1"].out1
    /\ f["f0"].out2 = f["f1"].out1
    /\ f["f1"].in2 = 0 /\ f["f1"].out2 = 0

\* NaN is in the history or the coefficients of flt
HasNaN(flt) ==
    \E x \in {flt.in1, flt.in2, flt.out1, flt.out2,
              flt.a0, flt.a1, flt.a2, flt.b0, flt.b1, flt.b2} : IsNaN(x)

(* C9: once any of in1, in2, out1, out2 or any coefficient of a Filter is
   NaN, every later Apply call on it returns NaN, whatever the inputs, and
   Apply does nothing that would clear the NaN from the history. *)
C9_NaNIsSticky ==
    [][\A i \in Instances :
          (ApplyStepOn(i) /\ HasNaN(f[i])) =>
              /\ IsNaN(outs'[i][Len(outs'[i])])
              /\ IsNaN(f'[i].out1)
              /\ HasNaN(f'[i])]_vars

\* a Filter with no NaN coefficient (q = 0 makes a0 and a2 infinite) was
\* fed three samples, none NaN: the first call returned NaN, in1 and in2
\* never held NaN, and the second and third calls returned NaN
C9_Witness ==
    \E i \in Instances :
        /\ FromFactory(i)
        /\ \A c \in {f[i].a0, f[i].a1, f[i].a2, f[i].b0, f[i].b1, f[i].b2} : ~IsNaN(c)
        /\ Len(ins[i]) = 3
        /\ \A k \in 1 .. 3 : ~IsNaN(ins[i][k]) /\ IsNaN(outs[i][k])


\* both threads have returned from Apply
BothDone == \A t \in Threads : th[t].pc = "done"

\* the Filters and the two return values when thread first makes its whole
\* call before thread second makes its own
Sequential(first, second) ==
    LET fresh == [i \in Instances |-> Build(origin[i])]
        i1 == th[first].inst
        i2 == th[second].inst
        mid == [fresh EXCEPT ![i1] = ApplyFilter(fresh[i1], th[first].input)]
        end == [mid EXCEPT ![i2] = ApplyFilter(mid[i2], th[second].input)]
    IN  [f |-> end,
         returned |-> [t \in Threads |->
                          IF t = first THEN ApplyOutput(fresh[i1], th[first].input)
                          ELSE ApplyOutput(mid[i2], th[second].input)]]

\* what the two concurrent calls gave
Outcome == [f |-> f, returned |-> [t \in Threads |-> th[t].output]]

SomeOrder == Outcome \in {Sequential("t0", "t1"), Sequential("t1", "t0")}

(* C10: Apply takes no lock: two threads calling Apply on the same instance
   can end with outputs or a history that neither sequential order of the
   two calls gives; with one instance per thread every outcome is that of
   the two calls made one after the other. *)
C10_OneInstancePerThread ==
    (BothDone /\ th["t0"].inst # th["t1"].inst) => SomeOrder

\* both threads called Apply on the same instance and the outcome is that
\* of neither order
C10_Witness ==
    /\ BothDone
    /\ th["t0"].inst = th["t1"].inst
    /\ ~SomeOrder

====
